---- MODULE Spec2Model ----
(***************************************************************************)
(* A model of the Bible plugin of OpenLP: the scripture reference parser   *)
(* and its separators (openlp/plugins/bibles/lib/__init__.py), the Bible   *)
(* cache and the similarity search of the BibleManager (lib/manager.py),   *)
(* the model download worker (lib/workers/download.py) and the audio       *)
(* worker (lib/workers/audio.py).                                          *)
(*                                                                         *)
(* A reference text is a sequence of tokens.  A token is a number (a run   *)
(* of digits, [0-9]+), one of the four separators in their default         *)
(* spelling (verse ":", range "-", list ",", end "end") or a piece of text *)
(* that is neither (a book name).  White space is absorbed by the \s* of   *)
(* the separators and of the regular expressions and is not a token.       *)
(***************************************************************************)
EXTENDS Integers, Sequences, FiniteSets, TLC

\* ------------------------------------------------------------------ bounds
\* A reference with one range declaration is written with the numbers 0..MaxNum.
MaxNum == 3
\* A reference with two is written with the numbers 0..MaxListNum.
MaxListNum == 2
\* Every token sequence of at most MaxRawLen tokens is an input too.
MaxRawLen == 3
\* A Bible stores at most MaxRows encodings for one encoder model, a
\* similarity is one of 0..MaxScore (in units of 1/MaxScore), and a search
\* asks for at most MaxResults verses.
MaxRows == 3
MaxScore == 2
MaxResults == 2
\* A model is downloaded as at most MaxFiles files.
MaxFiles == 3
\* A custom separator setting has at most MaxSepLen characters.
MaxSepLen == 4

\* ------------------------------------------------------------------ tokens
\* A number token carries its decimal digits, most significant first.
Num(digits) == [t |-> "num", v |-> digits]
Sep(s) == [t |-> s, v |-> <<>>]
Word(w) == [t |-> w, v |-> <<>>]

\* int(): the value of a string of decimal digits.
RECURSIVE ToInt(_)
ToInt(digits) ==
    IF digits = <<>> THEN 0
    ELSE 10 * ToInt(SubSeq(digits, 1, Len(digits) - 1)) + digits[Len(digits)]

IsNum(tok) == tok.t = "num"

\* Optional values of Python (None or a value) are sequences of length <= 1.
None == <<>>
Some(x) == <<x>>

\* Python truth of an optional int: None and 0 are false.
Truthy(x) == x # None /\ x[1] # 0

\* ------------------------------------------------------- regular expressions
\* The token at position i; past the end, a token that nothing matches.
At(s, i) == IF i >= 1 /\ i <= Len(s) THEN s[i] ELSE [t |-> "eof", v |-> <<>>]

\* The matches of <chapter><sep_v> starting at i, as <<end, group>>.
\* It is optional in range_regex: the empty match is always there.
OptChapter(s, i) ==
    {<<i, None>>} \cup
    (IF IsNum(At(s, i)) /\ At(s, i + 1).t = "v" THEN {<<i + 2, Some(At(s, i).v)>>} ELSE {})

\* range_regex: (<chapter>:)?<verse>(-((<chapter>:)?<verse>|end)?)?
\* All the ways range_regex matches s from position i: the position after
\* the match and the groups.  A group holds the digits it matched, or None;
\* range_to is whether group range_to took part (it is never empty then).
RangeRegex(s, i) ==
    LET heads == {[fc |-> c[2], p |-> c[1]] : c \in {c \in OptChapter(s, i) : IsNum(At(s, c[1]))}}
        plain == {[end |-> h.p + 1, from_chapter |-> h.fc, from_verse |-> Some(At(s, h.p).v),
                   range_to |-> FALSE, to_chapter |-> None, to_verse |-> None] : h \in heads}
        ranged == {h \in heads : At(s, h.p + 1).t = "r"}
        open == {[end |-> h.p + 2, from_chapter |-> h.fc, from_verse |-> Some(At(s, h.p).v),
                  range_to |-> TRUE, to_chapter |-> None, to_verse |-> None] : h \in ranged}
        toend == {[end |-> h.p + 3, from_chapter |-> h.fc, from_verse |-> Some(At(s, h.p).v),
                   range_to |-> TRUE, to_chapter |-> None, to_verse |-> None] :
                       h \in {h \in ranged : At(s, h.p + 2).t = "e"}}
        toverse == UNION {
                     {[end |-> c[1] + 1, from_chapter |-> h.fc, from_verse |-> Some(At(s, h.p).v),
                       range_to |-> TRUE, to_chapter |-> c[2], to_verse |-> Some(At(s, c[1]).v)] :
                          c \in {c \in OptChapter(s, h.p + 2) : IsNum(At(s, c[1]))}} : h \in ranged}
    IN  plain \cup open \cup toend \cup toverse

\* REFERENCE_MATCHES['range']: ^\s*<range_regex>\s*$ .  The match object, or None.
RangeMatch(s) ==
    LET ms == {m \in RangeRegex(s, 1) : m.end = Len(s) + 1}
    IN  IF ms = {} THEN None ELSE Some(CHOOSE m \in ms : TRUE)

\* (?:<range_regex>(?:<sep_l>(?!\s*$)|(?=\s*$)))+\s*$ from position i.
RECURSIVE RangesMatchTrailing(_, _)
RangesMatchTrailing(s, i) ==
    \E m \in RangeRegex(s, i) :
        \/ m.end = Len(s) + 1
        \/ /\ At(s, m.end).t = "l"
           /\ \/ m.end = Len(s)
              \/ RangesMatchTrailing(s, m.end + 1)

RECURSIVE RangesMatch(_, _)
RangesMatch(s, i) ==
    \E m \in RangeRegex(s, i) :
        \/ m.end = Len(s) + 1
        \/ /\ At(s, m.end).t = "l"
           /\ m.end + 1 <= Len(s)
           /\ RangesMatch(s, m.end + 1)

\* The end of group book: [\d]*[.]?[^\d\.]+ , optional leading digits and
\* then everything that is no digit.
RECURSIVE NonDigits(_, _)
NonDigits(s, i) == IF i <= Len(s) /\ ~IsNum(s[i]) THEN NonDigits(s, i + 1) ELSE i

BookEnd(s) ==
    LET start == IF IsNum(At(s, 1)) THEN 2 ELSE 1
        stop == NonDigits(s, start)
    IN  IF stop > start THEN stop ELSE 0

\* REFERENCE_MATCHES['full'].match(reference): None, or groups book and ranges.
FullMatch(s) ==
    LET e == BookEnd(s)
    IN  IF e > 0 /\ RangesMatch(s, e)
        THEN Some([book |-> SubSeq(s, 1, e - 1), ranges |-> SubSeq(s, e, Len(s))])
        ELSE None

\* REFERENCE_MATCHES['range_separator'].split(ranges)
RECURSIVE SplitList(_, _, _)
SplitList(s, i, cur) ==
    IF i > Len(s) THEN <<cur>>
    ELSE IF s[i].t = "l" THEN <<cur>> \o SplitList(s, i + 1, <<>>)
    ELSE SplitList(s, i + 1, Append(cur, s[i]))

Split(s) == SplitList(s, 1, <<>>)

\* ----------------------------------------------------------- parse_reference
\* int(group) for a group that matched; None stays None.
IntOf(group) == IF group # None THEN Some(ToInt(group[1])) ELSE None

\* "Fill chapter fields with reasonable values", the from side: the carried
\* chapter, from_chapter and from_verse after `if from_chapter: ... else: ...`.
FillFromNoCarry(from_chapter, from_verse, chapter) ==
    IF Truthy(from_chapter)
    THEN [chapter |-> from_chapter, from_chapter |-> from_chapter, from_verse |-> from_verse]
    ELSE [chapter |-> chapter, from_chapter |-> from_verse, from_verse |-> None]

FillFrom(from_chapter, from_verse, chapter) ==
    IF Truthy(from_chapter)
    THEN [chapter |-> from_chapter, from_chapter |-> from_chapter, from_verse |-> from_verse]
    ELSE IF Truthy(chapter)
    THEN [chapter |-> chapter, from_chapter |-> chapter, from_verse |-> from_verse]
    ELSE [chapter |-> chapter, from_chapter |-> from_verse, from_verse |-> None]

\* The to side, `if to_chapter: ... elif to_verse: ...`: whether the range is
\* dropped by `continue`, the carried chapter, to_chapter and to_verse.
FillToAsChapter(from_chapter, to_chapter, to_verse, chapter) ==
    IF Truthy(to_chapter)
    THEN IF Truthy(from_chapter) /\ to_chapter[1] < from_chapter[1]
         THEN [skip |-> TRUE, chapter |-> chapter, to_chapter |-> to_chapter, to_verse |-> to_verse]
         ELSE [skip |-> FALSE, chapter |-> to_chapter, to_chapter |-> to_chapter, to_verse |-> to_verse]
    ELSE IF Truthy(to_verse)
    THEN [skip |-> FALSE, chapter |-> chapter, to_chapter |-> to_verse, to_verse |-> None]
    ELSE [skip |-> FALSE, chapter |-> chapter, to_chapter |-> to_chapter, to_verse |-> to_verse]

FillTo(from_chapter, to_chapter, to_verse, chapter) ==
    IF Truthy(to_chapter)
    THEN IF Truthy(from_chapter) /\ to_chapter[1] < from_chapter[1]
         THEN [skip |-> TRUE, chapter |-> chapter, to_chapter |-> to_chapter, to_verse |-> to_verse]
         ELSE [skip |-> FALSE, chapter |-> to_chapter, to_chapter |-> to_chapter, to_verse |-> to_verse]
    ELSE IF Truthy(to_verse)
    THEN IF Truthy(chapter)
         THEN [skip |-> FALSE, chapter |-> chapter, to_chapter |-> chapter, to_verse |-> to_verse]
         ELSE [skip |-> FALSE, chapter |-> chapter, to_chapter |-> to_verse, to_verse |-> None]
    ELSE [skip |-> FALSE, chapter |-> chapter, to_chapter |-> to_chapter, to_verse |-> to_verse]

\* The fields of one matched range after the conversions and the filling.
FillChaptersFromOnly(m, chapter) ==
    LET a == FillFrom(IntOf(m.from_chapter), IntOf(m.from_verse), chapter)
        b == FillTo(a.from_chapter, IntOf(m.to_chapter), IntOf(m.to_verse), a.chapter)
    IN  [skip |-> b.skip, chapter |-> a.chapter, has_range |-> m.range_to,
         from_chapter |-> a.from_chapter[1], from_verse |-> a.from_verse,
         to_chapter |-> b.to_chapter, to_verse |-> b.to_verse]

FillChapters(m, chapter) ==
    LET a == FillFrom(IntOf(m.from_chapter), IntOf(m.from_verse), chapter)
        b == FillTo(a.from_chapter, IntOf(m.to_chapter), IntOf(m.to_verse), a.chapter)
    IN  [skip |-> b.skip, chapter |-> b.chapter, has_range |-> m.range_to,
         from_chapter |-> a.from_chapter[1], from_verse |-> a.from_verse,
         to_chapter |-> b.to_chapter, to_verse |-> b.to_verse]

\* for i in range(from_chapter + 1, to_chapter): (book_ref_id, i, 1, -1),
\* called with i = from_chapter + 1.
BetweenNone(book_ref_id, i, to_chapter) == <<>>

RECURSIVE Between(_, _, _)
Between(book_ref_id, i, to_chapter) ==
    IF i >= to_chapter THEN <<>>
    ELSE <<(<<book_ref_id, i, 1, -1>>)>> \o Between(book_ref_id, i + 1, to_chapter)

\* if not from_verse: from_verse = 1
FromVerseOrFirst(from_verse) == IF Truthy(from_verse) THEN from_verse[1] ELSE 1

\* if not to_verse: to_verse = -1
ToVerseOrFirst(to_verse) == IF Truthy(to_verse) THEN to_verse[1] ELSE 1

ToVerseOrEnd(to_verse) == IF Truthy(to_verse) THEN to_verse[1] ELSE -1

\* The tuples of a range that crosses chapters (to_chapter > from_chapter).
CrossChaptersFrom(book_ref_id, from_chapter, from_verse, to_chapter, to_verse) ==
    <<(<<book_ref_id, from_chapter, from_verse, -1>>)>>
    \o Between(book_ref_id, from_chapter, to_chapter)
    \o <<(<<book_ref_id, to_chapter, 1, to_verse>>)>>

CrossChapters(book_ref_id, from_chapter, from_verse, to_chapter, to_verse) ==
    <<(<<book_ref_id, from_chapter, from_verse, -1>>)>>
    \o Between(book_ref_id, from_chapter + 1, to_chapter)
    \o <<(<<book_ref_id, to_chapter, 1, to_verse>>)>>

\* The body of `for book_ref_id in book_ref_ids` for one book id: the tuples
\* it appends, and from_verse and to_verse as it leaves them.
AppendReferences(f, book_ref_id, from_verse, to_verse) ==
    IF f.has_range
    THEN LET fv == FromVerseOrFirst(from_verse)
             tv == ToVerseOrEnd(to_verse)
             refs == IF Truthy(f.to_chapter) /\ f.to_chapter[1] > f.from_chapter
                     THEN CrossChapters(book_ref_id, f.from_chapter, fv, f.to_chapter[1], tv)
                     ELSE IF tv >= fv \/ tv = -1
                     THEN <<(<<book_ref_id, f.from_chapter, fv, tv>>)>>
                     ELSE <<>>
         IN  [refs |-> refs, from_verse |-> Some(fv), to_verse |-> Some(tv)]
    ELSE IF Truthy(from_verse)
    THEN [refs |-> <<(<<book_ref_id, f.from_chapter, from_verse[1], from_verse[1]>>)>>,
          from_verse |-> from_verse, to_verse |-> to_verse]
    ELSE [refs |-> <<(<<book_ref_id, f.from_chapter, 1, -1>>)>>,
          from_verse |-> from_verse, to_verse |-> to_verse]

\* for book_ref_id in book_ref_ids: ... , from position i of book_ref_ids.
RECURSIVE ForBooks(_, _, _, _, _)
ForBooks(f, ids, i, from_verse, to_verse) ==
    IF i > Len(ids) THEN <<>>
    ELSE LET r == AppendReferences(f, ids[i], from_verse, to_verse)
         IN  r.refs \o ForBooks(f, ids, i + 1, r.from_verse, r.to_verse)

\* ref_list.append(...) for the tuples of one range, in the order they are made.
AppendedInFront(list, refs) == refs \o list

Appended(list, refs) == list \o refs

\* --------------------------------------------------------------- the inputs
V == Sep("v")
R == Sep("r")
L == Sep("l")
E == Sep("e")
John == Word("John")

\* The one-digit numbers 0..n.
Digits(n) == {Num(<<d>>) : d \in 0..n}

\* The range declarations that hold exactly j numbers of D.
Declarations(j, D) ==
    IF j = 1 THEN UNION {{<<a>>, <<a, R>>, <<a, R, E>>} : a \in D}
    ELSE IF j = 2 THEN UNION {{<<a, V, b>>, <<a, V, b, R>>, <<a, V, b, R, E>>, <<a, R, b>>} :
                                 a \in D, b \in D}
    ELSE IF j = 3 THEN UNION {{<<a, V, b, R, c>>, <<a, R, b, V, c>>} : a \in D, b \in D, c \in D}
    ELSE IF j = 4 THEN {<<a, V, b, R, c, V, d>> : a \in D, b \in D, c \in D, d \in D}
    ELSE {}

AllDeclarations(D) == UNION {Declarations(j, D) : j \in 1..4}

\* The range declarations that follow a list separator in the references
\* with two: those that hold one or two numbers of D.
TailDeclarations(D) == Declarations(1, D) \cup Declarations(2, D)

\* Every token sequence of length n over the alphabet.
Alphabet == {John, Word("Xyz"), Num(<<1>>), V, R, L, E}
RECURSIVE Texts(_)
Texts(n) == IF n = 0 THEN {<<>>} ELSE {Append(s, tok) : s \in Texts(n - 1), tok \in Alphabet}

\* The references of the docstring of parse_reference.
DocExamples ==
    {<<John, Num(<<3>>)>>,
     <<John, Num(<<3>>), R, Num(<<5>>)>>,
     <<John, Num(<<3>>), V, Num(<<1, 6>>)>>,
     <<John, Num(<<3>>), V, Num(<<1, 6>>), R, Num(<<4>>), V, Num(<<3>>)>>,
     <<John, Num(<<3>>), V, Num(<<1, 6>>), R, Num(<<1, 8>>)>>,
     <<John, Num(<<3>>), V, Num(<<1, 6>>), L, Num(<<1, 8>>)>>,
     <<John, Num(<<3>>), V, Num(<<1, 6>>), R, Num(<<1, 8>>), L, Num(<<2, 0>>)>>,
     <<John, Num(<<3>>), V, Num(<<1, 6>>), R, Num(<<1, 8>>), L, Num(<<4>>), V, Num(<<1>>)>>}

\* Longer references: three declarations, a declaration after a range that
\* crosses chapters, bare numbers only, numbers written with a leading zero.
LongExamples ==
    {<<John, Num(<<3>>), V, Num(<<1, 6>>), L, Num(<<1, 8>>), L, Num(<<2, 0>>)>>,
     <<John, Num(<<3>>), V, Num(<<1, 6>>), R, Num(<<4>>), V, Num(<<3>>), L, Num(<<5>>)>>,
     <<John, Num(<<3>>), L, Num(<<5>>)>>,
     <<John, Num(<<3>>), R, Num(<<5>>), L, Num(<<7>>)>>,
     <<John, Num(<<0, 3>>), V, Num(<<0, 7>>)>>}

\* The references with one range declaration, the short texts, the examples.
ShortReferences ==
    {<<John>> \o d : d \in AllDeclarations(Digits(MaxNum))}
    \cup UNION {Texts(n) : n \in 0..MaxRawLen}
    \cup DocExamples \cup LongExamples

\* A Bible database, as parse_reference sees it: the book ids that
\* get_book_ref_id_by_localised_name finds for the name John (an empty list
\* stands for False; no other name is known) and the ids of its books.
Bibles == {[localised |-> <<1>>, books |-> {1, 2}],
           [localised |-> <<1, 2>>, books |-> {1, 2}]}

\* The values of the parameter book_ref_id: False, a book of the Bible, no book of it.
BookRefIds == {None, Some(2), Some(3)}

get_book_ref_id_by_localised_name(b, book) == IF book = <<John>> THEN b.localised ELSE <<>>

get_book_by_book_ref_id(b, id) == id \in b.books

\* The book ids parse_reference works with: the ids found for the book of
\* the text when book_ref_id is False, book_ref_id itself when the Bible has
\* that book, and nothing otherwise (an empty list: [] is returned).
BookRefIdsByName(b, book, id) == get_book_ref_id_by_localised_name(b, book)

BookRefIdsOf(b, book, id) ==
    IF id = None THEN get_book_ref_id_by_localised_name(b, book)
    ELSE IF ~get_book_by_book_ref_id(b, id[1]) THEN <<>>
    ELSE <<id[1]>>

\* -------------------------------------------------------------- the state
VARIABLES
    reference,      \* parse_reference: the parameter reference
    bible,          \* the parameter bible
    book_ref_id,    \* the parameter book_ref_id (None for False)
    pc,             \* where the call is: "call", "loop", "done" or "raised"
    book_ref_ids,   \* the local book_ref_ids
    range_list,     \* the local range_list
    done,           \* how many elements of range_list the loop has taken
    chapter,        \* the local chapter
    ref_list,       \* the local ref_list
    result,         \* the list returned
    disk,           \* the bibles directory: file name -> what the file holds
    db_cache,       \* BibleManager.db_cache: name -> the Bible object
    last,           \* the last call of the manager and what it returned
    text,           \* similarity_search: the parameter text
    bible_name,     \* the parameter bible, a name (None for a false value)
    encoder_model,  \* BibleManager.encoder_model: None or the name of the model
    bible_embedding,\* whether the Bible has the meta key bible_embedding_<model>
    encodings,      \* the Encoding rows of the model: <<verse_id, encoding>>
    similarity_threshold, \* the parameter similarity_threshold
    max_results,    \* the parameter max_results
    search_pc,      \* where the call is: "idle", "call", "done" or "raised"
    results,        \* the local results: the verse ids selected
    found,          \* the list returned
    _files,         \* ModelDownloadWorker._files
    is_cancelled,   \* ModelDownloadWorker.is_cancelled
    download_pc,    \* where start() is: "idle", "start", "loop", "returned", "cancelled", "raised"
    next_file,      \* the position in _files of the file the loop takes next
    _downloaded_files, \* ModelDownloadWorker._downloaded_files
    _failed_files,  \* ModelDownloadWorker._failed_files: its keys, in the order of the dict
    signals,        \* the signals the worker has emitted, in order
    file_list,      \* ModelBase.model_info['file_list'] (None until it is set)
    loop_pc,        \* AudioWorker: where the thread that runs start() is
    slot_pc,        \* where the thread that calls the slots is
    slot_arg,       \* the argument of the slot it is in
    microphone_mutex,  \* who holds microphone_mutex: "free", "loop" or "slot"
    transcriber_mutex, \* who holds transcriber_mutex
    microphone,     \* AudioWorker.microphone: its device index (0 for the default device)
    transcriber_model, \* AudioWorker.transcriber_model: None or the name of the model
    is_active,      \* AudioWorker.is_active
    shutdown,       \* AudioWorker.shutdown
    curr_audio_data, \* the local curr_audio_data of start(): whether it is not None
    default_separators, \* update_reference_separators: the local default_separators
    custom_separators,  \* the local custom_separators
    index,              \* the loop variable index, from 1 (0: no call, 5: after the loop)
    REFERENCE_SEPARATORS, \* the module dictionary REFERENCE_SEPARATORS
    REFERENCE_MATCHES   \* the module dictionary REFERENCE_MATCHES: what each regex is made of

parse_vars == <<reference, bible, book_ref_id, pc, book_ref_ids, range_list, done, chapter,
                ref_list, result>>

manager_vars == <<disk, db_cache, last>>

search_vars == <<text, bible_name, encoder_model, bible_embedding, encodings,
                 similarity_threshold, max_results, search_pc, results, found>>

\* What a call of parse_reference leaves alone, and what the manager's
\* cache operations leave alone.
download_vars == <<_files, is_cancelled, download_pc, next_file, _downloaded_files, _failed_files,
                   signals, file_list>>

audio_vars == <<loop_pc, slot_pc, slot_arg, microphone_mutex, transcriber_mutex, microphone,
                transcriber_model, is_active, shutdown, curr_audio_data>>

separator_vars == <<default_separators, custom_separators, index, REFERENCE_SEPARATORS,
                    REFERENCE_MATCHES>>

beside_parse == <<manager_vars, search_vars, download_vars, audio_vars, separator_vars>>
beside_cache == <<parse_vars, search_vars, download_vars, audio_vars, separator_vars>>
beside_search == <<parse_vars, manager_vars, download_vars, audio_vars, separator_vars>>
beside_download == <<parse_vars, manager_vars, search_vars, audio_vars, separator_vars>>
beside_audio == <<parse_vars, manager_vars, search_vars, download_vars, separator_vars>>
beside_separators == <<parse_vars, manager_vars, search_vars, download_vars, audio_vars>>

ParseInit ==
    /\ \/ /\ reference \in ShortReferences
          /\ bible \in Bibles
          /\ book_ref_id \in BookRefIds
       \/ /\ \E first \in AllDeclarations(Digits(MaxListNum)),
                rest \in TailDeclarations(Digits(MaxListNum)) :
                   reference = <<John>> \o first \o <<L>> \o rest
          /\ bible = [localised |-> <<1>>, books |-> {1, 2}]
          /\ book_ref_id = None
    /\ pc = "call"
    /\ book_ref_ids = <<>>
    /\ range_list = <<>>
    /\ done = 0
    /\ chapter = None
    /\ ref_list = <<>>
    /\ result = <<>>

\* parse_reference up to the loop: the full match and the book ids.
Match ==
    /\ pc = "call"
    /\ LET match == FullMatch(reference)
           ids == IF match = None THEN <<>> ELSE BookRefIdsOf(bible, match[1].book, book_ref_id)
       IN  IF match = None \/ ids = <<>>
           THEN /\ pc' = "done"
                /\ result' = <<>>
                /\ UNCHANGED <<book_ref_ids, range_list>>
           ELSE /\ pc' = "loop"
                /\ book_ref_ids' = ids
                /\ range_list' = Split(match[1].ranges)
                /\ UNCHANGED result
    /\ UNCHANGED <<reference, bible, book_ref_id, done, chapter, ref_list, beside_parse>>

\* One turn of `for this_range in range_list`.
Range ==
    /\ pc = "loop"
    /\ done < Len(range_list)
    /\ LET range_match == RangeMatch(range_list[done + 1])
       IN  IF range_match = None
           THEN \* range_match.group raises AttributeError
                /\ pc' = "raised"
                /\ UNCHANGED <<done, chapter, ref_list>>
           ELSE LET f == FillChapters(range_match[1], chapter)
                IN  /\ done' = done + 1
                    /\ chapter' = f.chapter
                    /\ ref_list' = IF f.skip THEN ref_list
                                   ELSE Appended(ref_list,
                                                 ForBooks(f, book_ref_ids, 1, f.from_verse, f.to_verse))
                    /\ UNCHANGED pc
    /\ UNCHANGED <<reference, bible, book_ref_id, book_ref_ids, range_list, result, beside_parse>>

\* return ref_list
Return ==
    /\ pc = "loop"
    /\ done = Len(range_list)
    /\ pc' = "done"
    /\ result' = ref_list
    /\ UNCHANGED <<reference, bible, book_ref_id, book_ref_ids, range_list, done, chapter, ref_list,
                   beside_parse>>

\* ------------------------------------------------------------ BibleManager
\* The names a Bible can have, and the files of the bibles directory.
Names == {"KJV", "NIV"}
AlternativeBookNames == "alternative_book_names.sqlite"
BibleFiles == {"KJV.sqlite", "NIV.sqlite"}
FileNames == BibleFiles \cup {AlternativeBookNames}

\* '{name}{suffix}'.format(name=name, suffix=self.suffix)
NameSuffix(name) == IF name = "KJV" THEN "KJV.sqlite" ELSE "NIV.sqlite"

\* What a database file holds, as BibleDB sees it: whether a session opens on
\* it, the name in its metadata (None when there is none) and whether the
\* metadata say it is a web Bible.  A file that is not there is Absent.
Absent == [there |-> FALSE, session |-> FALSE, name |-> None, web |-> FALSE]
Contents ==
    {[there |-> TRUE, session |-> FALSE, name |-> None, web |-> FALSE],
     [there |-> TRUE, session |-> TRUE, name |-> None, web |-> FALSE]}
    \cup {[there |-> TRUE, session |-> TRUE, name |-> Some(n), web |-> w] : n \in Names, w \in BOOLEAN}

\* The database of alternative book names is no Bible: it has no name.
AlternativeContents == [there |-> TRUE, session |-> TRUE, name |-> None, web |-> FALSE]

\* A Bible object: its class, the file it was made for, its session (open or None).
Bible(class, file) == [class |-> class, file |-> file, session |-> TRUE]

\* AppLocation.get_files('bibles', self.suffix): the files that are there, in the
\* order the directory lists them.
Listings(d) ==
    LET there == {f \in FileNames : d[f].there}
    IN  {order \in [1..Cardinality(there) -> there] :
            \A i, j \in 1..Cardinality(there) : order[i] = order[j] => i = j}

\* file_paths.remove(Path('alternative_book_names.sqlite'))
RECURSIVE Remove(_, _)
Remove(paths, f) ==
    IF paths = <<>> THEN <<>>
    ELSE IF Head(paths) = f THEN Tail(paths)
    ELSE <<Head(paths)>> \o Remove(Tail(paths), f)

\* delete_file(path): the file is unlinked if it is there; True is returned.
\* (The OSError outcome, which returns False, is not in the model.)
delete_file(d, f) == [d EXCEPT ![f] = Absent]

\* dict assignment cache[name] = bible
Put(cache, name, b) ==
    [n \in DOMAIN cache \cup {name} |-> IF n = name THEN b ELSE cache[n]]

\* `for file_path in file_paths` of reload_bibles, from position i: the cache
\* and the directory it leaves, and the files it closed and deleted.
RECURSIVE LoadFiles(_, _, _, _, _)
LoadFiles(file_paths, i, cache, d, removed) ==
    IF i > Len(file_paths) THEN [db_cache |-> cache, disk |-> d, removed |-> removed]
    ELSE LET file_path == file_paths[i]
             this_bible == d[file_path]
         IN  IF ~this_bible.session
             THEN LoadFiles(file_paths, i + 1, cache, d, removed)
             ELSE IF this_bible.name = None
             THEN LoadFiles(file_paths, i + 1, cache, delete_file(d, file_path),
                            removed \cup {file_path})
             ELSE LoadFiles(file_paths, i + 1,
                            Put(cache, this_bible.name[1],
                                Bible(IF this_bible.web THEN "HTTPBible" ELSE "BibleDB", file_path)),
                            d, removed)

\* if Path('alternative_book_names.sqlite') in file_paths: file_paths.remove(...)
BiblePaths(file_paths) ==
    IF \E i \in 1..Len(file_paths) : file_paths[i] = AlternativeBookNames
    THEN Remove(file_paths, AlternativeBookNames)
    ELSE file_paths

\* BibleManager.reload_bibles(), on the directory listing file_paths, with
\* cache the db_cache it finds: self.db_cache = {} comes before the loop.
ReloadBiblesKeeping(file_paths, d, cache) == LoadFiles(BiblePaths(file_paths), 1, cache, d, {})

ReloadBibles(file_paths, d, cache) == LoadFiles(BiblePaths(file_paths), 1, <<>>, d, {})

\* BibleManager.exists(name)
exists(name) == \E key \in DOMAIN db_cache : key = name

\* BibleManager.get_bibles()
get_bibles == db_cache

\* BibleManager.__init__ on a bibles directory that holds the alternative book
\* names only: reload_bibles() finds no Bible.
ManagerInit ==
    /\ disk = [f \in FileNames |-> IF f = AlternativeBookNames THEN AlternativeContents ELSE Absent]
    /\ db_cache = <<>>
    /\ last = [op |-> "__init__", name |-> None, file |-> None, value |-> None, removed |-> {}]

reload_bibles ==
    /\ \E file_paths \in Listings(disk) :
          LET r == ReloadBibles(file_paths, disk, db_cache)
          IN  /\ db_cache' = r.db_cache
              /\ disk' = r.disk
              /\ last' = [op |-> "reload_bibles", name |-> None, file |-> None, value |-> None,
                          removed |-> r.removed]
    /\ UNCHANGED beside_cache

\* BibleManager.import_bible(type, **kwargs) for a Bible called name: the
\* importer makes the database file of that name and registers the name.
import_bible ==
    /\ \E name \in Names, web \in BOOLEAN :
          /\ disk' = [disk EXCEPT ![NameSuffix(name)] =
                         [there |-> TRUE, session |-> TRUE, name |-> Some(name), web |-> web]]
          /\ db_cache' = Put(db_cache, name,
                             Bible(IF web THEN "HTTPBible" ELSE "BibleDB", NameSuffix(name)))
          /\ last' = [op |-> "import_bible", name |-> Some(name), file |-> Some(NameSuffix(name)),
                      value |-> None, removed |-> {}]
    /\ UNCHANGED beside_cache

\* BibleManager.delete_bible(name), for a name of the cache (another name is
\* a KeyError) whose session is open (this_bible.session.close() raises on None).
delete_bible ==
    /\ \E name \in DOMAIN db_cache :
          LET this_bible == db_cache[name]
          IN  /\ this_bible.session
              /\ db_cache' = [db_cache EXCEPT ![name].session = FALSE]
              /\ disk' = delete_file(disk, NameSuffix(name))
              /\ last' = [op |-> "delete_bible", name |-> Some(name), file |-> Some(this_bible.file),
                          value |-> Some(TRUE), removed |-> {}]
    /\ UNCHANGED beside_cache

\* The directory changes behind the manager: a file is copied in, replaced, damaged.
FileWritten ==
    /\ \E f \in BibleFiles, c \in Contents :
          /\ disk[f] # c
          /\ disk' = [disk EXCEPT ![f] = c]
    /\ last' = [op |-> "file", name |-> None, file |-> None, value |-> None, removed |-> {}]
    /\ UNCHANGED <<db_cache, beside_cache>>

\* A file of the directory is removed behind the manager.
FileRemoved ==
    /\ \E f \in FileNames :
          /\ disk[f].there
          /\ disk' = [disk EXCEPT ![f] = Absent]
    /\ last' = [op |-> "file", name |-> None, file |-> None, value |-> None, removed |-> {}]
    /\ UNCHANGED <<db_cache, beside_cache>>

\* ------------------------------------------- BibleManager.similarity_search
\* The verses of a Bible.  EmbeddingWorker stores one encoding for each
\* sentence of a verse (and one for the whole verse when it has several
\* sentences), so a verse id can have several Encoding rows.
VerseIds == {1, 2}

\* An encoding is modelled by the similarity the encoder model gives it for
\* the text searched: one of 0..MaxScore.
Scores == 0..MaxScore

\* The sequences of at most n Encoding rows.
RECURSIVE Rows(_)
Rows(n) ==
    IF n = 0 THEN {<<>>}
    ELSE Rows(n - 1) \cup {Append(r, <<v, e>>) : r \in {r \in Rows(n - 1) : Len(r) = n - 1},
                                                 v \in VerseIds, e \in Scores}

\* BibleDB.is_web_bible of a Bible object of the cache
is_web_bible(this_bible) == this_bible.class = "HTTPBible"

\* BibleManager.get_encodings(bible, model_name) on the cache: None, or the
\* list of (verse_id, encoding) of the model; the list is empty without the
\* meta key.
get_encodings(cache, this_bible, model_name, key, rows) ==
    IF this_bible = None \/ model_name = None THEN None
    ELSE IF is_web_bible(cache[this_bible[1]]) THEN None
    ELSE IF ~key THEN Some(<<>>)
    ELSE Some(rows)

\* zip(*pairs): the first and the second components (for pairs that are not empty).
Unzip(pairs) == <<[i \in 1..Len(pairs) |-> pairs[i][1]], [i \in 1..Len(pairs) |-> pairs[i][2]]>>

\* zip(verse_ids, similarities)
Zip(a, b) == [i \in 1..(IF Len(a) < Len(b) THEN Len(a) ELSE Len(b)) |-> <<a[i], b[i]>>]

\* encoder_model.similarity(text, encodings): one similarity for each encoding.
similarity(vectors) == [i \in 1..Len(vectors) |-> vectors[i]]

\* sorted(verse_similarity, key=lambda x: x[1], reverse=True): a stable sort,
\* pairs of equal similarity keep their order.
RECURSIVE Inserted(_, _)
Inserted(sorted, x) ==
    IF sorted = <<>> THEN <<x>>
    ELSE IF Head(sorted)[2] >= x[2] THEN <<Head(sorted)>> \o Inserted(Tail(sorted), x)
    ELSE <<x>> \o sorted

NotSorted(pairs) == pairs

RECURSIVE Sorted(_)
Sorted(pairs) ==
    IF pairs = <<>> THEN <<>>
    ELSE Inserted(Sorted(SubSeq(pairs, 1, Len(pairs) - 1)), pairs[Len(pairs)])

\* `for verse_id, similarity in verse_similarity` from position i: results
\* when the loop ends or breaks.
RECURSIVE Selected(_, _, _, _, _)
Selected(verse_similarity, i, list, threshold, max) ==
    IF i > Len(verse_similarity) THEN list
    ELSE LET verse_id == verse_similarity[i][1]
             sim == verse_similarity[i][2]
         IN  IF (\A k \in 1..Len(list) : list[k] # verse_id) /\ sim >= threshold
             THEN IF Len(list) + 1 >= max THEN Append(list, verse_id)
                  ELSE Selected(verse_similarity, i + 1, Append(list, verse_id), threshold, max)
             ELSE Selected(verse_similarity, i + 1, list, threshold, max)

\* No search has been called.
SearchIdle ==
    /\ text = ""
    /\ bible_name = None
    /\ encoder_model = None
    /\ bible_embedding = FALSE
    /\ encodings = <<>>
    /\ similarity_threshold = 0
    /\ max_results = 0
    /\ search_pc = "idle"
    /\ results = <<>>
    /\ found = <<>>

\* A manager whose only Bible is KJV, a web Bible or not.
SearchManager ==
    /\ \E web \in BOOLEAN :
          /\ disk = [f \in FileNames |->
                       IF f = AlternativeBookNames THEN AlternativeContents
                       ELSE IF f = NameSuffix("KJV")
                       THEN [there |-> TRUE, session |-> TRUE, name |-> Some("KJV"), web |-> web]
                       ELSE Absent]
          /\ db_cache = Put(<<>>, "KJV", Bible(IF web THEN "HTTPBible" ELSE "BibleDB", NameSuffix("KJV")))
    /\ last = [op |-> "__init__", name |-> None, file |-> None, value |-> None, removed |-> {}]

\* A call of similarity_search(bible, text, similarity_threshold, max_results).
\* A Bible without the meta key has no rows, and a web Bible has neither.
SearchCall ==
    /\ text \in {"", "love"}
    /\ bible_name \in {None, Some("KJV"), Some("NIV")}
    /\ encoder_model \in {None, Some("st")}
    /\ bible_embedding \in BOOLEAN
    /\ encodings \in Rows(MaxRows)
    /\ (~bible_embedding \/ is_web_bible(db_cache["KJV"]) \/ encoder_model = None
          \/ bible_name # Some("KJV")) => encodings = <<>>
    /\ similarity_threshold \in Scores
    /\ max_results \in 0..MaxResults
    /\ search_pc = "call"
    /\ results = <<>>
    /\ found = <<>>

\* BibleManager.similarity_search, the whole call.
similarity_search ==
    /\ search_pc = "call"
    /\ IF text = "" \/ bible_name = None
       THEN \* return []
            /\ search_pc' = "done"
            /\ found' = <<>>
            /\ UNCHANGED results
       ELSE IF bible_name[1] \notin DOMAIN db_cache
       THEN \* self.db_cache[bible] raises KeyError
            /\ search_pc' = "raised"
            /\ UNCHANGED <<results, found>>
       ELSE IF is_web_bible(db_cache[bible_name[1]]) \/ encoder_model = None
       THEN \* return []
            /\ search_pc' = "done"
            /\ found' = <<>>
            /\ UNCHANGED results
       ELSE LET pairs == get_encodings(db_cache, bible_name, encoder_model, bible_embedding,
                                       encodings)[1]
            IN  IF pairs = <<>>
                THEN \* verse_ids, encodings = zip(*[]) raises ValueError
                     /\ search_pc' = "raised"
                     /\ UNCHANGED <<results, found>>
                ELSE LET verse_ids == Unzip(pairs)[1]
                         similarities == similarity(Unzip(pairs)[2])
                         verse_similarity == Sorted(Zip(verse_ids, similarities))
                         selected == Selected(verse_similarity, 1, <<>>, similarity_threshold,
                                              max_results)
                     IN  /\ search_pc' = "done"
                         /\ results' = selected
                         /\ found' = selected
    /\ UNCHANGED <<text, bible_name, encoder_model, bible_embedding, encodings,
                   similarity_threshold, max_results, beside_search>>

\* ------------------------------------------------------ ModelDownloadWorker
\* The files a model can be made of.
ModelFiles == {"config.json", "model.tar.gz"}

\* The lists of at most n files.
RECURSIVE FileLists(_)
FileLists(n) ==
    IF n = 0 THEN {<<>>}
    ELSE FileLists(n - 1) \cup {Append(l, f) : l \in {l \in FileLists(n - 1) : Len(l) = n - 1},
                                               f \in ModelFiles}

\* self.current_file = file if file else 'model'
current_file(f) == IF f = "" THEN "model" ELSE f

\* d[key] = e for a dict d, as the list of its keys
SetItem(d, key) == IF \E i \in 1..Len(d) : d[i] = key THEN d ELSE Append(d, key)

\* No model is being downloaded.
DownloadIdle ==
    /\ _files = <<>>
    /\ is_cancelled = FALSE
    /\ download_pc = "idle"
    /\ next_file = 1
    /\ _downloaded_files = <<>>
    /\ _failed_files = <<>>
    /\ signals = <<>>
    /\ file_list = None

\* ModelDownloadWorker.__init__(base_url, files, download_dir); run_thread
\* will call start().
DownloadInit ==
    /\ \E files \in FileLists(MaxFiles) : _files = IF files # <<>> THEN files ELSE <<"">>
    /\ is_cancelled = FALSE
    /\ download_pc = "start"
    /\ next_file = 1
    /\ _downloaded_files = <<>>
    /\ _failed_files = <<>>
    /\ signals = <<>>
    /\ file_list = None

\* start() up to the loop.  get_url_file_size can raise (it is not caught).
Start ==
    /\ download_pc = "start"
    /\ IF is_cancelled
       THEN /\ signals' = Append(signals, [signal |-> "quit"])
            /\ download_pc' = "cancelled"
       ELSE /\ download_pc' \in {"loop", "raised"}
            /\ UNCHANGED signals
    /\ UNCHANGED <<_files, is_cancelled, next_file, _downloaded_files, _failed_files, file_list,
                   beside_download>>

\* One turn of `for file in self._files`.  The download of a file succeeds,
\* raises one of the errors that are caught (RequestException, TarError,
\* URLError) or raises another.  _downloaded_files holds strings, so
\* downloaded_file.exists() of the cancelled branch raises AttributeError.
\* (A tar file adds the names of its members to _downloaded_files; the name
\* of the file stands for them.)
Download ==
    /\ download_pc = "loop"
    /\ next_file <= Len(_files)
    /\ IF is_cancelled
       THEN /\ IF _downloaded_files # <<>>
               THEN download_pc' = "raised" /\ UNCHANGED signals
               ELSE /\ signals' = Append(signals, [signal |-> "quit"])
                    /\ download_pc' = "cancelled"
            /\ UNCHANGED <<next_file, _downloaded_files, _failed_files>>
       ELSE \/ /\ _downloaded_files' = Append(_downloaded_files, current_file(_files[next_file]))
               /\ next_file' = next_file + 1
               /\ UNCHANGED <<download_pc, _failed_files, signals>>
            \/ \* except (...) as e: self._failed_files[file] = e; return
               /\ _failed_files' = SetItem(_failed_files, _files[next_file])
               /\ download_pc' = "returned"
               /\ UNCHANGED <<next_file, _downloaded_files, signals>>
            \/ /\ download_pc' = "raised"
               /\ UNCHANGED <<next_file, _downloaded_files, _failed_files, signals>>
    /\ UNCHANGED <<_files, is_cancelled, file_list, beside_download>>

\* After the loop: download_finished, quit, return.
Finish ==
    /\ download_pc = "loop"
    /\ next_file > Len(_files)
    /\ signals' = signals \o <<[signal |-> "download_finished", files |-> _downloaded_files,
                                errors |-> _failed_files],
                               [signal |-> "quit"]>>
    /\ download_pc' = "returned"
    /\ UNCHANGED <<_files, is_cancelled, next_file, _downloaded_files, _failed_files, file_list,
                   beside_download>>

\* The slot cancel_download, called from another thread while start() runs.
cancel_download ==
    /\ download_pc \in {"start", "loop"}
    /\ ~is_cancelled
    /\ is_cancelled' = TRUE
    /\ UNCHANGED <<_files, download_pc, next_file, _downloaded_files, _failed_files, signals,
                   file_list, beside_download>>

\* ModelBase.on_download_finished, the slot of the signal download_finished:
\* all_files = list(map(str, file_list)) + list(errors.keys())
on_download_finished ==
    /\ file_list = None
    /\ \E i \in 1..Len(signals) :
          /\ signals[i].signal = "download_finished"
          /\ file_list' = Some(signals[i].files \o signals[i].errors)
    /\ UNCHANGED <<_files, is_cancelled, download_pc, next_file, _downloaded_files, _failed_files,
                   signals, beside_download>>

\* -------------------------------------------------------------- AudioWorker
\* (workers/audio.py)  One thread runs start(); the slots are called from
\* another thread while it runs.
\* QMutex.lock() returns when the mutex is free; it blocks until then.
CanLockAlways(mutex) == TRUE

CanLock(mutex) == mutex = "free"

\* The devices a microphone can be set up for, and the models of the database:
\* a Whisper model, a SpeechBrain model and a model of another library.
Devices == {0, 1}
TranscriberNames == {"whisper", "speechbrain", "other"}

\* No AudioWorker exists.
AudioIdle ==
    /\ loop_pc = "none"
    /\ slot_pc = "none"
    /\ slot_arg = None
    /\ microphone_mutex = "free"
    /\ transcriber_mutex = "free"
    /\ microphone = 0
    /\ transcriber_model = None
    /\ is_active = FALSE
    /\ shutdown = FALSE
    /\ curr_audio_data = FALSE

\* AudioWorker.__init__ (setup_microphone(None) has run), and start() is called.
AudioInit ==
    /\ loop_pc = "while"
    /\ slot_pc = "idle"
    /\ slot_arg = None
    /\ microphone_mutex = "free"
    /\ transcriber_mutex = "free"
    /\ microphone = 0
    /\ transcriber_model = None
    /\ is_active = TRUE
    /\ shutdown = FALSE
    /\ curr_audio_data = FALSE

\* while not self.shutdown: if self.is_active:
While ==
    /\ loop_pc = "while"
    /\ loop_pc' = IF shutdown THEN "returned" ELSE IF is_active THEN "lock_microphone" ELSE "msleep"
    /\ UNCHANGED <<slot_pc, slot_arg, microphone_mutex, transcriber_mutex, microphone,
                   transcriber_model, is_active, shutdown, curr_audio_data, beside_audio>>

\* microphone_mutex.lock()
LoopLockMicrophone ==
    /\ loop_pc = "lock_microphone"
    /\ CanLock(microphone_mutex)
    /\ microphone_mutex' = "loop"
    /\ loop_pc' = "listen"
    /\ UNCHANGED <<slot_pc, slot_arg, transcriber_mutex, microphone, transcriber_model, is_active,
                   shutdown, curr_audio_data, beside_audio>>

\* with self.microphone as source: audio_data = self.recognizer.listen(source)...;
\* microphone_mutex.unlock(); then whether more than 3 seconds have passed.
\* listen can raise: start() ends and the mutex stays locked.
Listen ==
    /\ loop_pc = "listen"
    /\ \/ /\ microphone_mutex' = "free"
          /\ curr_audio_data' = TRUE
          /\ loop_pc' \in {"lock_transcriber", "msleep"}
       \/ /\ loop_pc' = "raised"
          /\ UNCHANGED <<microphone_mutex, curr_audio_data>>
    /\ UNCHANGED <<slot_pc, slot_arg, transcriber_mutex, microphone, transcriber_model, is_active,
                   shutdown, beside_audio>>

\* transcriber_mutex.lock(); if self.transcriber_model is not None:
LoopLockTranscriber ==
    /\ loop_pc = "lock_transcriber"
    /\ CanLock(transcriber_mutex)
    /\ transcriber_mutex' = "loop"
    /\ loop_pc' = IF transcriber_model # None THEN "transcribe" ELSE "unlock_transcriber"
    /\ UNCHANGED <<slot_pc, slot_arg, microphone_mutex, microphone, transcriber_model, is_active,
                   shutdown, curr_audio_data, beside_audio>>

\* text = self.transcriber_model.transcribe(curr_audio_data), which can raise
Transcribe ==
    /\ loop_pc = "transcribe"
    /\ loop_pc' \in {"unlock_transcriber", "raised"}
    /\ UNCHANGED <<slot_pc, slot_arg, microphone_mutex, transcriber_mutex, microphone,
                   transcriber_model, is_active, shutdown, curr_audio_data, beside_audio>>

\* transcriber_mutex.unlock(); curr_audio_data = None
LoopUnlockTranscriber ==
    /\ loop_pc = "unlock_transcriber"
    /\ transcriber_mutex' = "free"
    /\ curr_audio_data' = FALSE
    /\ loop_pc' = "msleep"
    /\ UNCHANGED <<slot_pc, slot_arg, microphone_mutex, microphone, transcriber_model, is_active,
                   shutdown, beside_audio>>

\* QtCore.QThread.msleep(100)
Msleep ==
    /\ loop_pc = "msleep"
    /\ loop_pc' = "while"
    /\ UNCHANGED <<slot_pc, slot_arg, microphone_mutex, transcriber_mutex, microphone,
                   transcriber_model, is_active, shutdown, curr_audio_data, beside_audio>>

\* setup_microphone(microphone_source) is called.
setup_microphone ==
    /\ slot_pc = "idle"
    /\ \E microphone_source \in Devices : slot_arg' = Some(microphone_source)
    /\ slot_pc' = "lock_microphone"
    /\ UNCHANGED <<loop_pc, microphone_mutex, transcriber_mutex, microphone, transcriber_model,
                   is_active, shutdown, curr_audio_data, beside_audio>>

\* microphone_mutex.lock() of setup_microphone
SlotLockMicrophone ==
    /\ slot_pc = "lock_microphone"
    /\ CanLock(microphone_mutex)
    /\ microphone_mutex' = "slot"
    /\ slot_pc' = "new_microphone"
    /\ UNCHANGED <<loop_pc, slot_arg, transcriber_mutex, microphone, transcriber_model, is_active,
                   shutdown, curr_audio_data, beside_audio>>

\* self.microphone = Microphone(device_index=microphone_source) if
\* microphone_source else Microphone(); when it raises, the slot ends and the
\* mutex stays locked.
NewMicrophone ==
    /\ slot_pc = "new_microphone"
    /\ \/ /\ microphone' = IF Truthy(slot_arg) THEN slot_arg[1] ELSE 0
          /\ slot_pc' = "adjust_for_ambient_noise"
          /\ UNCHANGED slot_arg
       \/ /\ slot_pc' = "idle"
          /\ slot_arg' = None
          /\ UNCHANGED microphone
    /\ UNCHANGED <<loop_pc, microphone_mutex, transcriber_mutex, transcriber_model, is_active,
                   shutdown, curr_audio_data, beside_audio>>

\* with self.microphone: self.recognizer.adjust_for_ambient_noise(self.microphone);
\* microphone_mutex.unlock()
AdjustForAmbientNoise ==
    /\ slot_pc = "adjust_for_ambient_noise"
    /\ \/ microphone_mutex' = "free"
       \/ UNCHANGED microphone_mutex
    /\ slot_pc' = "idle"
    /\ slot_arg' = None
    /\ UNCHANGED <<loop_pc, transcriber_mutex, microphone, transcriber_model, is_active, shutdown,
                   curr_audio_data, beside_audio>>

\* set_model(model_name) is called for a model of the database (for another
\* name it returns None at once).
set_model ==
    /\ slot_pc = "idle"
    /\ \E name \in TranscriberNames : slot_arg' = Some(name)
    /\ slot_pc' = "lock_transcriber"
    /\ UNCHANGED <<loop_pc, microphone_mutex, transcriber_mutex, microphone, transcriber_model,
                   is_active, shutdown, curr_audio_data, beside_audio>>

\* transcriber_mutex.lock() of set_model
SlotLockTranscriber ==
    /\ slot_pc = "lock_transcriber"
    /\ CanLock(transcriber_mutex)
    /\ transcriber_mutex' = "slot"
    /\ slot_pc' = "new_model"
    /\ UNCHANGED <<loop_pc, slot_arg, microphone_mutex, microphone, transcriber_model, is_active,
                   shutdown, curr_audio_data, beside_audio>>

\* self.transcriber_model = model_class(model_name, self, **model_data);
\* model_class is None for a library that is neither Whisper nor SpeechBrain,
\* and calling it raises: the slot ends and the mutex stays locked.
NewModel ==
    /\ slot_pc = "new_model"
    /\ IF slot_arg[1] \in {"whisper", "speechbrain"}
       THEN \/ /\ transcriber_model' = slot_arg
               /\ slot_pc' = "load"
               /\ UNCHANGED slot_arg
            \/ /\ slot_pc' = "idle"
               /\ slot_arg' = None
               /\ UNCHANGED transcriber_model
       ELSE /\ slot_pc' = "idle"
            /\ slot_arg' = None
            /\ UNCHANGED transcriber_model
    /\ UNCHANGED <<loop_pc, microphone_mutex, transcriber_mutex, microphone, is_active, shutdown,
                   curr_audio_data, beside_audio>>

\* self.transcriber_model.load(); transcriber_mutex.unlock()
Load ==
    /\ slot_pc = "load"
    /\ \/ transcriber_mutex' = "free"
       \/ UNCHANGED transcriber_mutex
    /\ slot_pc' = "idle"
    /\ slot_arg' = None
    /\ UNCHANGED <<loop_pc, microphone_mutex, microphone, transcriber_model, is_active, shutdown,
                   curr_audio_data, beside_audio>>

\* toggle_active(state)
toggle_active ==
    /\ slot_pc = "idle"
    /\ ~shutdown
    /\ is_active' = ~is_active
    /\ UNCHANGED <<loop_pc, slot_pc, slot_arg, microphone_mutex, transcriber_mutex, microphone,
                   transcriber_model, shutdown, curr_audio_data, beside_audio>>

\* shutdown_worker()
shutdown_worker ==
    /\ slot_pc = "idle"
    /\ ~shutdown
    /\ shutdown' = TRUE
    /\ is_active' = FALSE
    /\ UNCHANGED <<loop_pc, slot_pc, slot_arg, microphone_mutex, transcriber_mutex, microphone,
                   transcriber_model, curr_audio_data, beside_audio>>

\* ----------------------------------------------- update_reference_separators
\* A string is the sequence of its characters; a translated word such as
\* "verse" is one character here.
\* str.strip('|'): the leading and the trailing '|' are removed.
RECURSIVE LStrip(_)
LStrip(str) == IF str # <<>> /\ Head(str) = "|" THEN LStrip(Tail(str)) ELSE str

RECURSIVE RStrip(_)
RStrip(str) ==
    IF str # <<>> /\ str[Len(str)] = "|" THEN RStrip(SubSeq(str, 1, Len(str) - 1)) ELSE str

NotStripped(str) == str

Strip(str) == RStrip(LStrip(str))

\* '||' in source_string
HasDoubleBar(str) == \E i \in 1..(Len(str) - 1) : str[i] = "|" /\ str[i + 1] = "|"

\* source_string.replace('||', '|'): the occurrences from left to right.
RECURSIVE ReplaceDoubleBar(_)
ReplaceDoubleBar(str) ==
    IF Len(str) < 2 THEN str
    ELSE IF str[1] = "|" /\ str[2] = "|" THEN <<"|">> \o ReplaceDoubleBar(SubSeq(str, 3, Len(str)))
    ELSE <<str[1]>> \o ReplaceDoubleBar(Tail(str))

\* while '||' in source_string: source_string = source_string.replace('||', '|')
RECURSIVE Collapsed(_)
Collapsed(str) == IF HasDoubleBar(str) THEN Collapsed(ReplaceDoubleBar(str)) ELSE str

\* source_string.split('|')
RECURSIVE SplitBar(_, _)
SplitBar(str, cur) ==
    IF str = <<>> THEN <<cur>>
    ELSE IF Head(str) = "|" THEN <<cur>> \o SplitBar(Tail(str), <<>>)
    ELSE SplitBar(Tail(str), Append(cur, Head(str)))

\* The reserved characters are escaped, and '-' and ',' become a class of
\* their Unicode alternatives.
Reserved == {"\\", ".", "^", "$", "*", "+", "?", "{", "}", "[", "]", "(", ")"}
RECURSIVE Escaped(_)
Escaped(str) ==
    IF str = <<>> THEN <<>>
    ELSE (IF Head(str) \in Reserved THEN <<"\\", Head(str)>>
          ELSE IF Head(str) = "-" THEN <<"(?:[-...])">>
          ELSE IF Head(str) = "," THEN <<"(?:[,...])">>
          ELSE <<Head(str)>>) \o Escaped(Tail(str))

\* r'\s*(?:{source})\s*'.format(source=source_string)
SepRegex(source_string) == <<"\\s*(?:">> \o source_string \o <<")\\s*">>

\* enumerate(['v', 'r', 'l', 'e'])
Roles == <<"v", "r", "l", "e">>

\* The keys 'sep_{role}', 'sep_{role}_display' and 'sep_{role}_default'.
SepKey(role) == CASE role = "v" -> "sep_v" [] role = "r" -> "sep_r" [] role = "l" -> "sep_l"
                  [] role = "e" -> "sep_e"
DisplayKey(role) == CASE role = "v" -> "sep_v_display" [] role = "r" -> "sep_r_display"
                      [] role = "l" -> "sep_l_display" [] role = "e" -> "sep_e_display"
DefaultKey(role) == CASE role = "v" -> "sep_v_default" [] role = "r" -> "sep_r_default"
                      [] role = "l" -> "sep_l_default" [] role = "e" -> "sep_e_default"

\* The default separators: untranslated, and in a translation that leaves
\* some of the strings empty and writes others with a full stop.
DefaultSeparators ==
    {<<(<<":", "|", "v", "|", "V", "|", "verse", "|", "verses">>), (<<"-", "|", "to">>),
       (<<",", "|", "and">>), (<<"end">>)>>,
     <<(<<"|", "v", ".", "|", "|", "|", "vers">>), (<<"-", "|">>), (<<"|">>), (<<>>)>>}

\* The strings of at most n characters a setting can hold.
SettingCharacters == {"|", "-", "."}
RECURSIVE Settings(_)
Settings(n) ==
    IF n = 0 THEN {<<>>}
    ELSE Settings(n - 1) \cup {Append(str, c) : str \in {str \in Settings(n - 1) : Len(str) = n - 1},
                                                c \in SettingCharacters}

\* update_reference_separators is not being called.
SeparatorsIdle ==
    /\ default_separators = <<>>
    /\ custom_separators = <<>>
    /\ index = 0
    /\ REFERENCE_SEPARATORS = <<>>
    /\ REFERENCE_MATCHES = <<>>

\* update_reference_separators() up to the loop.  Two of the settings are
\* any string of at most MaxSepLen characters, the two others any of at most one.
SeparatorsInit ==
    /\ default_separators \in DefaultSeparators
    /\ \E a \in Settings(MaxSepLen), b \in Settings(1) :
          custom_separators \in {<<a, b, a, b>>, <<b, a, b, a>>}
    /\ index = 1
    /\ REFERENCE_SEPARATORS = <<>>
    /\ REFERENCE_MATCHES = <<>>

\* One turn of `for index, role in enumerate(['v', 'r', 'l', 'e'])`.
UpdateSeparator ==
    /\ index \in 1..Len(Roles)
    /\ LET role == Roles[index]
           source_string == Collapsed(IF Strip(custom_separators[index]) = <<>>
                                      THEN Strip(default_separators[index])
                                      ELSE Strip(custom_separators[index]))
           display == IF role # "e" THEN DisplayKey(role) :> SplitBar(source_string, <<>>)[1]
                      ELSE <<>>
       IN  REFERENCE_SEPARATORS' =
               (DefaultKey(role) :> default_separators[index])
               @@ (SepKey(role) :> SepRegex(Escaped(source_string)))
               @@ display @@ REFERENCE_SEPARATORS
    /\ index' = index + 1
    /\ UNCHANGED <<default_separators, custom_separators, REFERENCE_MATCHES, beside_separators>>

\* After the loop: range_regex and the three compiled expressions, each by
\* the separators it is formatted with.
CompileMatches ==
    /\ index = Len(Roles) + 1
    /\ LET range_regex == [sep_v |-> REFERENCE_SEPARATORS["sep_v"],
                           sep_r |-> REFERENCE_SEPARATORS["sep_r"],
                           sep_e |-> REFERENCE_SEPARATORS["sep_e"]]
       IN  REFERENCE_MATCHES' = [range |-> range_regex,
                                 range_separator |-> REFERENCE_SEPARATORS["sep_l"],
                                 full |-> [range_regex |-> range_regex,
                                           sep_l |-> REFERENCE_SEPARATORS["sep_l"]]]
    /\ index' = index + 1
    /\ UNCHANGED <<default_separators, custom_separators, REFERENCE_SEPARATORS, beside_separators>>

vars == <<parse_vars, manager_vars, search_vars, download_vars, audio_vars, separator_vars>>

\* No reference is being parsed.
ParseIdle ==
    /\ reference = <<>>
    /\ bible = [localised |-> <<1>>, books |-> {1, 2}]
    /\ book_ref_id = None
    /\ pc = "done"
    /\ book_ref_ids = <<>>
    /\ range_list = <<>>
    /\ done = 0
    /\ chapter = None
    /\ ref_list = <<>>
    /\ result = <<>>

\* One call of parse_reference; the manager is as constructed.
Init == ParseInit /\ ManagerInit /\ SearchIdle /\ DownloadIdle /\ AudioIdle /\ SeparatorsIdle

ParseNext == Match \/ Range \/ Return

Spec == Init /\ [][ParseNext]_vars

\* The manager and its directory; no reference is being parsed.
ManagerStart == ManagerInit /\ ParseIdle /\ SearchIdle /\ DownloadIdle /\ AudioIdle /\ SeparatorsIdle

ManagerNext == reload_bibles \/ import_bible \/ delete_bible \/ FileWritten \/ FileRemoved

ManagerSpec == ManagerStart /\ [][ManagerNext]_vars

\* One call of similarity_search.
SearchStart == SearchManager /\ SearchCall /\ ParseIdle /\ DownloadIdle /\ AudioIdle /\ SeparatorsIdle

SearchNext == similarity_search

SearchSpec == SearchStart /\ [][SearchNext]_vars

\* One ModelDownloadWorker from its construction on, and the model it reports to.
DownloadStart == DownloadInit /\ ParseIdle /\ ManagerInit /\ SearchIdle /\ AudioIdle /\ SeparatorsIdle

DownloadNext == Start \/ Download \/ Finish \/ cancel_download \/ on_download_finished

DownloadSpec == DownloadStart /\ [][DownloadNext]_vars

\* An AudioWorker whose start() runs in its thread, and the caller of its slots.
AudioStart == AudioInit /\ ParseIdle /\ ManagerInit /\ SearchIdle /\ DownloadIdle /\ SeparatorsIdle

AudioNext ==
    \/ While \/ LoopLockMicrophone \/ Listen \/ LoopLockTranscriber \/ Transcribe
    \/ LoopUnlockTranscriber \/ Msleep
    \/ setup_microphone \/ SlotLockMicrophone \/ NewMicrophone \/ AdjustForAmbientNoise
    \/ set_model \/ SlotLockTranscriber \/ NewModel \/ Load
    \/ toggle_active \/ shutdown_worker

AudioSpec == AudioStart /\ [][AudioNext]_vars

\* One call of update_reference_separators.
SeparatorsStart ==
    SeparatorsInit /\ ParseIdle /\ ManagerInit /\ SearchIdle /\ DownloadIdle /\ AudioIdle

SeparatorsNext == UpdateSeparator \/ CompileMatches

SeparatorsSpec == SeparatorsStart /\ [][SeparatorsNext]_vars

\* ------------------------------------------------------------------ claims
\* The number a number token writes.
Val(tok) == ToInt(tok.v)

\* The reference is a book text of one token that is no number, followed by
\* tokens of the given kinds.
Reads(kinds) ==
    /\ Len(reference) = Len(kinds) + 1
    /\ ~IsNum(reference[1])
    /\ \A i \in 1..Len(kinds) : reference[i + 1].t = kinds[i]

\* The call has returned for a book text that resolves to the single book id B.
OneBook == pc = "done" /\ book_ref_id = None /\ Len(bible.localised) = 1 /\ reference # <<>>
                       /\ reference[1] = John
B == bible.localised[1]

IsPrefix(s, t) == Len(s) <= Len(t) /\ SubSeq(t, 1, Len(s)) = s

\* The tuples (b, c, 1, -1) for c = c1..c2.
WholeChapters(b, c1, c2) == [i \in 1..(c2 - c1 + 1) |-> <<b, c1 + i - 1, 1, -1>>]

\* The elements of range_list, joined by list separators again.
RECURSIVE Joined(_)
Joined(list) ==
    IF Len(list) = 0 THEN <<>>
    ELSE IF Len(list) = 1 THEN list[1]
    ELSE list[1] \o <<L>> \o Joined(Tail(list))

JohnRef(rest) == <<John>> \o rest
N(digits) == Num(digits)

\* C1: "John 3:16-18,4:1" gives [(B,3,16,18),(B,4,1,1)], and the tuples of
\* the result are in the order of the list-separated clauses: the loop takes
\* the clauses of the text from left to right, each turn only adds tuples at
\* the end of the list, and that list is what is returned.
C1_ClauseOrder ==
    [][/\ (pc = "call" /\ pc' = "loop" /\ ~IsNum(reference[1]) /\ IsNum(reference[2]))
            => Joined(range_list') = Tail(reference)
       /\ (pc = "loop" /\ pc' = "loop") => (done' = done + 1 /\ IsPrefix(ref_list, ref_list'))
       /\ (pc = "loop" /\ pc' = "done") => (done = Len(range_list) /\ result' = ref_list)
       /\ (OneBook' /\ reference' = JohnRef(<<N(<<3>>), V, N(<<1, 6>>), R, N(<<1, 8>>), L, N(<<4>>), V, N(<<1>>)>>))
            => result' = <<(<<B', 3, 16, 18>>), (<<B', 4, 1, 1>>)>>
      ]_vars

C1_Witness ==
    /\ OneBook
    /\ reference = JohnRef(<<N(<<3>>), V, N(<<1, 6>>), R, N(<<1, 8>>), L, N(<<4>>), V, N(<<1>>)>>)
    /\ result = <<(<<1, 3, 16, 18>>), (<<1, 4, 1, 1>>)>>

\* The groups of element k of range_list.
Groups(k) == RangeMatch(range_list[k])[1]
\* Element k writes a chapter with a verse separator (as from or as to chapter).
NamesChapter(k) == Groups(k).from_chapter # None \/ Groups(k).to_chapter # None
\* Element k starts with a chapter that is not 0 and a verse separator.
StartsWithChapter(k) == Groups(k).from_chapter # None /\ ToInt(Groups(k).from_chapter[1]) # 0
\* The chapters written with a verse separator in the elements 1..n.
ChaptersWritten(n) ==
    {ToInt(Groups(j).from_chapter[1]) : j \in {j \in 1..n : Groups(j).from_chapter # None}}
    \cup {ToInt(Groups(j).to_chapter[1]) : j \in {j \in 1..n : Groups(j).to_chapter # None}}
\* The tuples the turn of the loop that is being taken adds.
Added == SubSeq(ref_list', Len(ref_list) + 1, Len(ref_list'))

\* What C2 says of a turn of the loop that takes a clause with no chapter:
\* its tuples are verses of the carried chapter, which is a chapter written before.
CarriedChapterUsed ==
    /\ chapter # None
    /\ chapter' = chapter
    /\ \A i \in 1..Len(Added) :
          /\ Added[i][2] = chapter[1]
          /\ Added[i][2] \in ChaptersWritten(done)
          /\ Val(range_list[done + 1][1]) # 0 => Added[i][3] = Val(range_list[done + 1][1])

C2_Examples ==
    /\ (OneBook' /\ reference' = JohnRef(<<N(<<3>>), V, N(<<1, 6>>), L, N(<<1, 8>>)>>))
         => result' = <<(<<B', 3, 16, 16>>), (<<B', 3, 18, 18>>)>>
    /\ (OneBook' /\ reference' = JohnRef(<<N(<<3>>), V, N(<<1, 6>>), R, N(<<1, 8>>), L, N(<<2, 0>>)>>))
         => result' = <<(<<B', 3, 16, 18>>), (<<B', 3, 20, 20>>)>>

C3_WholeChapters ==
    OneBook =>
      /\ Reads(<<"num">>) => result = <<(<<B, Val(reference[2]), 1, -1>>)>>
      /\ (Reads(<<"num", "r", "num">>) /\ Val(reference[4]) > Val(reference[2]))
           => result = WholeChapters(B, Val(reference[2]), Val(reference[4]))
      /\ (\A i \in 1..Len(reference) : reference[i].t # "v")
           => \A i \in 1..Len(result) : result[i][1] = B /\ result[i][3] = 1 /\ result[i][4] = -1

C3_Witness ==
    /\ OneBook
    /\ reference = JohnRef(<<N(<<1>>), R, N(<<3>>)>>)
    /\ result = <<(<<1, 1, 1, -1>>), (<<1, 2, 1, -1>>), (<<1, 3, 1, -1>>)>>

\* C4 as written: "<book> c:v" gives [(B,c,v,v)] and "<book> c:v1-v2" with
\* v2 >= v1 gives [(B,c,v1,v2)], for all numbers.
C4_AnyNumbers ==
    OneBook =>
      /\ Reads(<<"num", "v", "num">>)
           => result = <<(<<B, Val(reference[2]), Val(reference[4]), Val(reference[4])>>)>>
      /\ (Reads(<<"num", "v", "num", "r", "num">>) /\ Val(reference[6]) >= Val(reference[4]))
           => result = <<(<<B, Val(reference[2]), Val(reference[4]), Val(reference[6])>>)>>

\* C4, amended: for c >= 1 and v >= 1, "<book> c:v" gives [(B,c,v,v)]; for
\* c >= 1 and v2 >= v1 >= 1, "<book> c:v1-v2" gives [(B,c,v1,v2)]: the number
\* after the range separator is a verse of the same chapter.
C4_VerseOfChapter ==
    OneBook =>
      /\ (Reads(<<"num", "v", "num">>) /\ Val(reference[2]) >= 1 /\ Val(reference[4]) >= 1)
           => result = <<(<<B, Val(reference[2]), Val(reference[4]), Val(reference[4])>>)>>
      /\ (/\ Reads(<<"num", "v", "num", "r", "num">>)
          /\ Val(reference[2]) >= 1 /\ Val(reference[4]) >= 1
          /\ Val(reference[6]) >= Val(reference[4]))
           => result = <<(<<B, Val(reference[2]), Val(reference[4]), Val(reference[6])>>)>>

C4_Witness ==
    /\ OneBook
    /\ reference = JohnRef(<<N(<<2>>), V, N(<<1>>), R, N(<<3>>)>>)
    /\ result = <<(<<1, 2, 1, 3>>)>>

\* The tuples C5 gives for c1:v1-c2:v2.
AcrossChapters(b, c1, v1, c2, v2) ==
    <<(<<b, c1, v1, -1>>)>> \o WholeChapters(b, c1 + 1, c2 - 1) \o <<(<<b, c2, 1, v2>>)>>

\* C5 as written: "<book> c1:v1-c2:v2" with c2 > c1 gives (B,c1,v1,-1),
\* (B,c,1,-1) for c1 < c < c2 in ascending order, (B,c2,1,v2), for all numbers.
C5_AnyNumbers ==
    (OneBook /\ Reads(<<"num", "v", "num", "r", "num", "v", "num">>)
             /\ Val(reference[6]) > Val(reference[2]))
      => result = AcrossChapters(B, Val(reference[2]), Val(reference[4]),
                                 Val(reference[6]), Val(reference[8]))

\* C5, amended: the same for c1 >= 1, v1 >= 1 and v2 >= 1.
C5_AcrossChapters ==
    (OneBook /\ Reads(<<"num", "v", "num", "r", "num", "v", "num">>)
             /\ Val(reference[6]) > Val(reference[2])
             /\ Val(reference[2]) >= 1 /\ Val(reference[4]) >= 1 /\ Val(reference[8]) >= 1)
      => result = AcrossChapters(B, Val(reference[2]), Val(reference[4]),
                                 Val(reference[6]), Val(reference[8]))

C5_Witness ==
    /\ OneBook
    /\ reference = JohnRef(<<N(<<1>>), V, N(<<2>>), R, N(<<3>>), V, N(<<1>>)>>)
    /\ result = <<(<<1, 1, 2, -1>>), (<<1, 2, 1, -1>>), (<<1, 3, 1, 1>>)>>

\* C6 as written: "<book> c:v-" and "<book> c:v-end" give [(B,c,v,-1)], for
\* all numbers.
C6_AnyNumbers ==
    (OneBook /\ (Reads(<<"num", "v", "num", "r">>) \/ Reads(<<"num", "v", "num", "r", "e">>)))
      => result = <<(<<B, Val(reference[2]), Val(reference[4]), -1>>)>>

\* C6, amended: for c >= 1 and v >= 1, "<book> c:v-" and "<book> c:v-end"
\* give [(B,c,v,-1)]; after a bare number the open range is the whole
\* chapter, "<book> c-" and "<book> c-end" give [(B,c,1,-1)].
C6_ToEndOfChapter ==
    OneBook =>
      /\ (/\ Reads(<<"num", "v", "num", "r">>) \/ Reads(<<"num", "v", "num", "r", "e">>)
          /\ Val(reference[2]) >= 1 /\ Val(reference[4]) >= 1)
           => result = <<(<<B, Val(reference[2]), Val(reference[4]), -1>>)>>
      /\ (Reads(<<"num", "r">>) \/ Reads(<<"num", "r", "e">>))
           => result = <<(<<B, Val(reference[2]), 1, -1>>)>>

C6_Witness ==
    /\ OneBook
    /\ reference = JohnRef(<<N(<<2>>), V, N(<<3>>), R, E>>)
    /\ result = <<(<<1, 2, 3, -1>>)>>

\* A text has a book name and a chapter number only if a token that is no
\* number is followed by a number.
BookAndChapter(s) == \E i \in 1..(Len(s) - 1) : ~IsNum(s[i]) /\ IsNum(s[i + 1])

\* C7: parse_reference raises nothing, and it returns the empty list when
\* the text does not match the full-reference grammar (in particular when it
\* lacks the book name or the chapter number), when the name lookup finds no
\* book id, and when book_ref_id is no book of the Bible.
C7_EmptyWhenUnusable ==
    /\ pc # "raised"
    /\ pc = "done" =>
         /\ ~BookAndChapter(reference) => result = <<>>
         /\ FullMatch(reference) = None => result = <<>>
         /\ (book_ref_id = None /\ FullMatch(reference) # None
               /\ get_book_ref_id_by_localised_name(bible, FullMatch(reference)[1].book) = <<>>)
              => result = <<>>
         /\ (book_ref_id # None /\ book_ref_id[1] \notin bible.books) => result = <<>>
         /\ (Len(reference) > 0 /\ reference[Len(reference)].t \in {"v", "l"}) => result = <<>>

C7_Witness ==
    /\ pc = "done"
    /\ reference = <<John, N(<<1>>), L>>
    /\ book_ref_id = None
    /\ result = <<>>

\* The ids one call may use: book_ref_id when it is passed and the Bible
\* has that book, else the ids the name of the text resolves to.
IdsOfCall ==
    IF book_ref_id # None
    THEN IF book_ref_id[1] \in bible.books THEN <<book_ref_id[1]>> ELSE <<>>
    ELSE IF reference # <<>> /\ FullMatch(reference) # None /\ FullMatch(reference)[1].book = <<John>>
    THEN bible.localised
    ELSE <<>>

\* C8: every tuple returned carries an id of IdsOfCall (the one id passed as
\* book_ref_id when the Bible has it, whatever the text names), and each
\* clause adds the same tuples once per id, in the order of the ids.
C8_OneBookOnly ==
    [][/\ pc' = "done" => \A i \in 1..Len(result') : \E k \in 1..Len(IdsOfCall) : result'[i][1] = IdsOfCall[k]
       /\ (pc = "loop" /\ pc' = "loop") =>
            LET ids == IdsOfCall
                n == Len(Added) \div Len(ids)
            IN  /\ Len(ids) > 0
                /\ Len(Added) = n * Len(ids)
                /\ \A k \in 1..Len(ids), i \in 1..n :
                      /\ Added[(k - 1) * n + i][1] = ids[k]
                      /\ Tail(Added[(k - 1) * n + i]) = Tail(Added[i])
      ]_vars

C8_Witness ==
    /\ pc = "done"
    /\ bible.localised = <<1, 2>>
    /\ book_ref_id = None
    /\ reference = JohnRef(<<N(<<1>>), V, N(<<2>>), R, N(<<3>>), V, N(<<1>>)>>)
    /\ Len(result) = 6
    /\ result[4] = <<2, 1, 2, -1>>

\* C9: after delete_bible(name) has returned True the database file of the
\* Bible is gone and the manager no longer reports the Bible: exists(name)
\* is False and name is no key of get_bibles().
C9_DeletedCompletely ==
    (last.op = "delete_bible" /\ last.value = Some(TRUE))
      => /\ ~disk[last.file[1]].there
         /\ ~exists(last.name[1])
         /\ last.name[1] \notin DOMAIN get_bibles

\* The Bibles the directory holds: the files, other than the
\* alternative book names, that open a session and have a name.
BiblesOnDisk == {f \in BibleFiles : disk[f].there /\ disk[f].session /\ disk[f].name # None}

\* C10: right after reload_bibles() the keys of db_cache are exactly the
\* names of the Bibles the directory holds, each entry is a Bible with an open
\* session made from a file of that name that is there (an HTTPBible exactly
\* for a web Bible), and the files without a name that opened a session were
\* deleted and are in no entry.
C10_CacheIsDirectory ==
    last.op = "reload_bibles" =>
      /\ DOMAIN db_cache = {disk[f].name[1] : f \in BiblesOnDisk}
      /\ \A name \in DOMAIN db_cache :
            LET entry == db_cache[name]
            IN  /\ entry.file \in BiblesOnDisk
                /\ disk[entry.file].name = Some(name)
                /\ entry.session
                /\ entry.class = IF disk[entry.file].web THEN "HTTPBible" ELSE "BibleDB"
      /\ \A f \in BibleFiles : (disk[f].there /\ disk[f].session) => disk[f].name # None
      /\ \A f \in last.removed :
            /\ ~disk[f].there
            /\ f # AlternativeBookNames
            /\ \A name \in DOMAIN db_cache : db_cache[name].file # f

C10_Witness ==
    /\ last.op = "reload_bibles"
    /\ last.removed = {"NIV.sqlite"}
    /\ DOMAIN db_cache = {"NIV"}
    /\ db_cache["NIV"] = [class |-> "HTTPBible", file |-> "KJV.sqlite", session |-> TRUE]
    /\ disk[AlternativeBookNames].there

\* The search is invalid in one of the ways C12 lists, for a Bible of the manager.
InvalidSearch ==
    \/ text = ""
    \/ bible_name = None
    \/ /\ bible_name[1] \in DOMAIN db_cache
       /\ \/ is_web_bible(db_cache[bible_name[1]])
          \/ encoder_model = None
          \/ get_encodings(db_cache, bible_name, encoder_model, bible_embedding, encodings) = Some(<<>>)

\* The verses that have an encoding, and the highest similarity of a verse.
Encoded == {encodings[i][1] : i \in 1..Len(encodings)}
Highest(v) ==
    LET sims == {similarity(Unzip(encodings)[2])[i] : i \in {i \in 1..Len(encodings) : encodings[i][1] = v}}
    IN  CHOOSE m \in sims : \A x \in sims : x <= m

\* C11: for max_results >= 1 the verse ids selected are pairwise distinct and
\* at most max_results, each has a highest similarity >= similarity_threshold,
\* they are in the order of decreasing highest similarity, and a verse that
\* qualifies is left out only when max_results verses of at least its
\* highest similarity were selected.
C11_BestMatches ==
    (search_pc = "done" /\ ~InvalidSearch /\ max_results >= 1) =>
      /\ \A i, j \in 1..Len(results) : results[i] = results[j] => i = j
      /\ Len(results) <= max_results
      /\ \A i \in 1..Len(results) :
            results[i] \in Encoded /\ Highest(results[i]) >= similarity_threshold
      /\ \A i \in 1..(Len(results) - 1) : Highest(results[i]) >= Highest(results[i + 1])
      /\ \A v \in Encoded :
            ((\A i \in 1..Len(results) : results[i] # v) /\ Highest(v) >= similarity_threshold)
              => /\ Len(results) = max_results
                 /\ Highest(v) <= Highest(results[Len(results)])

C11_Witness ==
    /\ search_pc = "done"
    /\ encodings = <<(<<1, 1>>), (<<2, 2>>), (<<1, 2>>)>>
    /\ similarity_threshold = 1
    /\ max_results = 2
    /\ results = <<2, 1>>

\* C12: an invalid search returns the empty list and raises nothing.
C12_EmptyWhenInvalid ==
    (search_pc # "call" /\ InvalidSearch) => (search_pc = "done" /\ found = <<>>)

\* C13: a run of start() that was not cancelled and has returned has emitted
\* download_finished(downloaded_files, failed_files) exactly once and then
\* quit, and every file with an error is in the failed_files of that signal.
C13_AlwaysReports ==
    download_pc = "returned" =>
      /\ Len(signals) = 2
      /\ signals[1].signal = "download_finished"
      /\ signals[1].files = _downloaded_files
      /\ signals[1].errors = _failed_files
      /\ signals[2].signal = "quit"

\* C14: the loop of start() is never listening on the microphone while
\* setup_microphone replaces or calibrates it, and never inside transcribe()
\* while set_model replaces or loads transcriber_model; whoever is in one of
\* these sections holds the mutex of that section.
C14_MutualExclusion ==
    /\ ~(loop_pc = "listen" /\ slot_pc \in {"new_microphone", "adjust_for_ambient_noise"})
    /\ ~(loop_pc \in {"transcribe", "unlock_transcriber"} /\ slot_pc \in {"new_model", "load"})
    /\ loop_pc = "listen" => microphone_mutex = "loop"
    /\ slot_pc \in {"new_microphone", "adjust_for_ambient_noise"} => microphone_mutex = "slot"
    /\ loop_pc \in {"transcribe", "unlock_transcriber"} => transcriber_mutex = "loop"
    /\ slot_pc \in {"new_model", "load"} => transcriber_mutex = "slot"

\* The loop is inside transcribe() while set_model waits for the mutex, and
\* the microphone was replaced before.
C14_Witness ==
    /\ loop_pc = "transcribe"
    /\ slot_pc = "lock_transcriber"
    /\ transcriber_mutex = "loop"
    /\ microphone = 1

\* The chapter the clause that is being taken starts in: its from-chapter
\* when one is written and is not 0, else the carried chapter when there is
\* one, else its first number.
StartsIn ==
    LET g == Groups(done + 1)
    IN  IF Truthy(IntOf(g.from_chapter)) THEN ToInt(g.from_chapter[1])
        ELSE IF Truthy(chapter) THEN chapter[1]
        ELSE ToInt(g.from_verse[1])

\* The chapter C15 says is carried after the clause that is being taken.
CarriedAfter ==
    LET g == Groups(done + 1)
        from == IF Truthy(IntOf(g.from_chapter)) THEN IntOf(g.from_chapter) ELSE chapter
    IN  IF Truthy(IntOf(g.to_chapter)) /\ ToInt(g.to_chapter[1]) >= StartsIn
        THEN IntOf(g.to_chapter)
        ELSE from

\* C15: a turn of the loop changes the carried chapter only when its clause
\* writes a chapter that is not 0 with a verse separator: the chapter becomes
\* the from-chapter written, then the to-chapter written when that is not
\* smaller than the chapter the clause starts in; a clause of bare numbers
\* leaves it unchanged.  "John 3:16-4:3,5" ends with (B,4,5,5), "John 3,5"
\* with (B,5,1,-1) and "John 3-5,7" with (B,7,1,-1).
C15_ChapterCarried ==
    [][/\ (pc = "loop" /\ pc' = "loop") =>
            /\ chapter' = CarriedAfter
            /\ chapter' # chapter =>
                  \/ Truthy(IntOf(Groups(done + 1).from_chapter))
                  \/ Truthy(IntOf(Groups(done + 1).to_chapter))
            /\ ~NamesChapter(done + 1) => chapter' = chapter
       /\ (OneBook' /\ reference' = JohnRef(<<N(<<3>>), V, N(<<1, 6>>), R, N(<<4>>), V, N(<<3>>), L, N(<<5>>)>>))
            => result'[Len(result')] = <<B', 4, 5, 5>>
       /\ (OneBook' /\ reference' = JohnRef(<<N(<<3>>), L, N(<<5>>)>>))
            => result' = <<(<<B', 3, 1, -1>>), (<<B', 5, 1, -1>>)>>
       /\ (OneBook' /\ reference' = JohnRef(<<N(<<3>>), R, N(<<5>>), L, N(<<7>>)>>))
            => result'[Len(result')] = <<B', 7, 1, -1>>
      ]_vars

C15_Witness ==
    /\ OneBook
    /\ reference = JohnRef(<<N(<<3>>), V, N(<<1, 6>>), R, N(<<4>>), V, N(<<3>>), L, N(<<5>>)>>)
    /\ chapter = Some(4)
    /\ result = <<(<<1, 3, 16, -1>>), (<<1, 4, 1, 3>>), (<<1, 4, 5, 5>>)>>

\* The alternatives of a separator string: its pieces between '|' that are
\* not empty, in order.
RECURSIVE Alternatives(_, _)
Alternatives(str, cur) ==
    IF str = <<>> THEN (IF cur = <<>> THEN <<>> ELSE <<cur>>)
    ELSE IF Head(str) = "|" THEN (IF cur = <<>> THEN <<>> ELSE <<cur>>) \o Alternatives(Tail(str), <<>>)
    ELSE Alternatives(Tail(str), Append(cur, Head(str)))

\* The alternatives joined by one '|'.
RECURSIVE JoinedByBar(_)
JoinedByBar(alts) ==
    IF alts = <<>> THEN <<>>
    ELSE IF Len(alts) = 1 THEN alts[1]
    ELSE alts[1] \o <<"|">> \o JoinedByBar(Tail(alts))

\* The string C16 says is chosen for role i: the custom setting when it holds
\* anything besides '|', else the default.
Chosen(i) ==
    IF \E k \in 1..Len(custom_separators[i]) : custom_separators[i][k] # "|"
    THEN custom_separators[i]
    ELSE default_separators[i]

\* C16: for each role the loop has taken, sep_<role> is made of the chosen
\* string without leading and trailing '|' and with every run of '|' collapsed
\* to one, sep_<role>_display (roles verse, range, list; the role end has
\* none) is its first alternative, and sep_<role>_default is the default.
C16_SeparatorsChosen ==
    \A i \in 1..(index - 1) :
        i <= Len(Roles) =>
          LET role == Roles[i]
              alts == Alternatives(Chosen(i), <<>>)
          IN  /\ REFERENCE_SEPARATORS[SepKey(role)] = SepRegex(Escaped(JoinedByBar(alts)))
              /\ role # "e" =>
                    REFERENCE_SEPARATORS[DisplayKey(role)] = (IF alts = <<>> THEN <<>> ELSE alts[1])
              /\ role = "e" => DisplayKey(role) \notin DOMAIN REFERENCE_SEPARATORS
              /\ REFERENCE_SEPARATORS[DefaultKey(role)] = default_separators[i]

C16_Witness ==
    /\ index = 6
    /\ custom_separators = <<(<<"|", "-", "|", ".">>), (<<"|">>), (<<"|", "-", "|", ".">>), (<<"|">>)>>
    /\ default_separators[2] = <<"-", "|", "to">>
    /\ REFERENCE_SEPARATORS["sep_v_display"] = <<"-">>
    /\ REFERENCE_SEPARATORS["sep_r_display"] = <<"-">>
    /\ REFERENCE_SEPARATORS["sep_l_default"] = <<",", "|", "and">>

====
